---- MODULE Spec2Model ----
(***************************************************************************)
(* Room / connection lifecycle and broadcast engine of the chat relay      *)
(* server (src/server.js, the variant of lines 233-609: per-room client    *)
(* lists, bounded message buffers, typing sets, heartbeat and the two      *)
(* periodic sweeps).  Every event-loop callback of the server is one       *)
(* action; the WebSocket library is the environment (readyState changes,   *)
(* delivery of message / close / error events).                            *)
(***************************************************************************)
EXTENDS Integers, Sequences, FiniteSets, TLC

(***************************************************************************)
(* Bounds of the model.                                                    *)
(***************************************************************************)
\* most chat messages accepted in one behaviour of Spec
MaxMsgs == 2
\* most chat messages accepted in one behaviour of SpecPayload
PayloadMsgs == 1
\* most chat messages accepted in one behaviour of SpecHistory
HistMsgs == 52
\* largest value Date.now() returns
MaxClock == 1
\* the values of Date.now(): the wall clock, read once per callback
Times == 0..MaxClock

\* connections (ws objects) that may arrive during a behaviour, named in the
\* order of their arrival
Conns == {"w1", "w2"}
Earlier(c) == IF c = "w2" THEN {"w1"} ELSE {}
\* room ids and nicks are named in the order of their first use
Before(x) == CASE x = "r2" -> {"r1"} [] x = "b" -> {"a"} [] OTHER -> {}
\* values of the `room` query parameter; "" is a missing / empty parameter
RoomIds == {"r1", "r2"}
\* values of the `nick` query parameter
Nicks == {"a", "b"}
\* searchParams.get() of a missing parameter (null) or an empty one ("")
Missing == ""

(***************************************************************************)
(* Program constants.                                                      *)
(***************************************************************************)
MAX_MESSAGES == 50
\* the literal of `text.length > 500`
MaxTextLength == 500

\* the close code of gracefulShutdown
CloseGoingAway == 1001

(***************************************************************************)
(* Strings.  A string is abstracted to the number of characters of its     *)
(* core (first to last non-whitespace character) and the number of         *)
(* whitespace characters around the core.  A whitespace-only string has    *)
(* core 0.                                                                 *)
(***************************************************************************)
Str(core, pad) == [core |-> core, pad |-> pad]

\* String.prototype.length
Length(s) == s.core + s.pad

\* String.prototype.trim(): drops the surrounding whitespace
Trim(s) == Str(s.core, 0)

\* the strings clients send as plain text: whitespace only, one character
\* between whitespace, and the two sides of the length limit
Strings == { Str(0, 1), Str(1, 1), Str(500, 0), Str(501, 0) }

(***************************************************************************)
(* Inbound payloads (the `data` of ws.on("message")), by the shape of      *)
(* data.toString().                                                        *)
(*   text      a string that JSON.parse rejects (s)                        *)
(*   typing    {"type":"typing","isTyping":flag}                           *)
(*   msgobj    {"type":"message","text":s}; with flag also "nick" and      *)
(*             "timestamp" fields chosen by the client                     *)
(*   notext    {"type":"message"}                                          *)
(*   number    a JSON number of n digits; as every JSON value that is not  *)
(*             an object it has no `type`                                  *)
(*   null      null                                                        *)
(***************************************************************************)
Payload(kind, s, flag, n) == [kind |-> kind, s |-> s, flag |-> flag, n |-> n]

NoPayload == Payload("none", Str(0, 0), FALSE, 0)

Payloads ==
    { Payload("text", s, FALSE, 0) : s \in Strings }
    \cup { Payload("typing", Str(0, 0), f, 0) : f \in BOOLEAN }
    \cup { Payload("msgobj", Str(0, 1), FALSE, 0),
           Payload("msgobj", Str(1, 0), TRUE, 0),
           Payload("notext", Str(0, 0), FALSE, 0),
           Payload("null", Str(0, 0), FALSE, 0),
           Payload("number", Str(0, 0), FALSE, 1),
           Payload("number", Str(0, 0), FALSE, 501) }

\* number of characters of data.toString().trim()
RawLen(p) ==
    CASE p.kind = "text"   -> p.s.core
      [] p.kind = "typing" -> IF p.flag THEN 33 ELSE 34
      [] p.kind = "msgobj" -> 28 + Length(p.s) + (IF p.flag THEN 25 ELSE 0)
      [] p.kind = "notext" -> 18
      [] p.kind = "number" -> p.n
      [] p.kind = "null"   -> 4
      [] OTHER             -> 0

(***************************************************************************)
(* State.                                                                  *)
(***************************************************************************)
VARIABLES
    readyState,      \* ws.readyState of every connection
    handlers,        \* connections whose message/close/error handlers are installed
    heartbeat,       \* connections whose heartbeatInterval is running
    destroyed,       \* connections whose socket ws.terminate() destroyed, close event pending
    cRoom,           \* the `roomId` constant of the connection's callback
    cNick,           \* the `nick` constant of the connection's callback
    roomKeys,        \* Object.keys(rooms), in insertion order
    rooms,           \* rooms[roomId]: the client list
    messageBuffers,  \* messageBuffers[roomId]: the history buffer
    typingUsers,     \* typingUsers[roomId]: the typing Set, in insertion order
    nextId,          \* number of message objects created so far
    out,             \* frames written by the last callback, in order
    last,            \* the last callback and its arguments
    phase            \* how far gracefulShutdown and its callbacks have got

vars == << readyState, handlers, heartbeat, destroyed, cRoom, cNick, roomKeys,
           rooms, messageBuffers, typingUsers, nextId, out, last, phase >>

(***************************************************************************)
(* Helpers on sequences and maps.                                          *)
(***************************************************************************)
Range(s) == { s[i] : i \in 1..Len(s) }

\* obj[k] = v on a JS object
Put(f, k, v) == [x \in DOMAIN f \cup {k} |-> IF x = k THEN v ELSE f[x]]

\* delete obj[k]
Delete(f, k) == [x \in DOMAIN f \ {k} |-> f[x]]

\* Object.keys after obj[k] = v
PutKey(keys, k) == IF k \in Range(keys) THEN keys ELSE Append(keys, k)

\* Object.keys after delete obj[k]
DeleteKey(keys, k) == SelectSeq(keys, LAMBDA x : x # k)

\* Set.prototype.add
SetAdd(s, x) == IF x \in Range(s) THEN s ELSE Append(s, x)

\* Set.prototype.delete
SetDelete(s, x) == SelectSeq(s, LAMBDA y : y # x)

Event(to, type, body) == [to |-> to, type |-> type, body |-> body]

\* ws.send(): a frame is written only on an OPEN connection
Send(rs, to, type, body) ==
    IF rs[to] = "OPEN" THEN << Event(to, type, body) >> ELSE << >>

\* SendAll without the readyState test
SendAllEvery(rs, clients, type, body) ==
    [i \in 1..Len(clients) |-> Event(clients[i].ws, type, body)]

\* clients.forEach(client => { if (client.ws.readyState === OPEN) client.ws.send(..) })
SendAll(rs, clients, type, body) ==
    LET open == SelectSeq(clients, LAMBDA cl : rs[cl.ws] = "OPEN")
    IN  [i \in 1..Len(open) |-> Event(open[i].ws, type, body)]

\* rooms[roomId]?.forEach(...)
SendRoom(rs, rms, roomId, type, body) ==
    IF roomId \in DOMAIN rms THEN SendAll(rs, rms[roomId], type, body) ELSE << >>

Callback(op, c, roomId, nick, p) ==
    [op |-> op, c |-> c, roomId |-> roomId, nick |-> nick, p |-> p]

\* a step that none of the connection, message, close and room-sweep
\* callbacks took
Other == Callback("other", "none", Missing, Missing, NoPayload)

(***************************************************************************)
(* The helper functions of the server.                                     *)
(***************************************************************************)
\* cleanupUserConnections that removes nothing
cleanupUserConnectionsNone(rs, clients, nick) == clients

\* the filter of cleanupUserConnections
cleanupUserConnections(rs, clients, nick) ==
    SelectSeq(clients, LAMBDA cl : ~(cl.nick = nick /\ rs[cl.ws] # "OPEN"))

\* existingUser with the readyState test inverted (!== OPEN)
existingUserNotOpen(rs, clients, nick) ==
    \E i \in 1..Len(clients) : clients[i].nick = nick /\ rs[clients[i].ws] # "OPEN"

\* existingUser with the nick test inverted (!== nick)
existingUserOtherNick(rs, clients, nick) ==
    \E i \in 1..Len(clients) : clients[i].nick # nick /\ rs[clients[i].ws] = "OPEN"

\* existingUser with || in place of &&
existingUserEither(rs, clients, nick) ==
    \E i \in 1..Len(clients) : clients[i].nick = nick \/ rs[clients[i].ws] = "OPEN"

\* rooms[roomId].find(client => client.nick === nick && readyState === OPEN)
existingUser(rs, clients, nick) ==
    \E i \in 1..Len(clients) : clients[i].nick = nick /\ rs[clients[i].ws] = "OPEN"

\* broadcastUserList that lists the nicks of the OPEN clients only
broadcastUserListOpen(rs, rms, roomId) ==
    SendRoom(rs, rms, roomId, "userList",
             IF roomId \in DOMAIN rms
             THEN LET open == SelectSeq(rms[roomId], LAMBDA cl : rs[cl.ws] = "OPEN")
                  IN  [i \in 1..Len(open) |-> open[i].nick]
             ELSE << >>)

\* broadcastUserList
broadcastUserList(rs, rms, roomId) ==
    SendRoom(rs, rms, roomId, "userList",
             IF roomId \in DOMAIN rms
             THEN [i \in 1..Len(rms[roomId]) |-> rms[roomId][i].nick]
             ELSE << >>)

\* broadcastSystemMessage
broadcastSystemMessage(rs, rms, roomId, message, now) ==
    SendRoom(rs, rms, roomId, "system", [text |-> message, timestamp |-> now])

\* typingUpdate with the isTyping test inverted
typingUpdateInverted(tu, roomId, typingUser, isTyping) ==
    LET cur == IF roomId \in DOMAIN tu THEN tu[roomId] ELSE << >>
    IN  Put(tu, roomId, IF ~isTyping THEN SetAdd(cur, typingUser)
                                     ELSE SetDelete(cur, typingUser))

\* the typing-set update of broadcastTypingStatus
typingUpdate(tu, roomId, typingUser, isTyping) ==
    LET cur == IF roomId \in DOMAIN tu THEN tu[roomId] ELSE << >>
    IN  Put(tu, roomId, IF isTyping THEN SetAdd(cur, typingUser)
                                    ELSE SetDelete(cur, typingUser))

\* broadcastTypingStatus that sends only when the typing set changed
broadcastTypingStatusOnChange(rs, rms, tu, roomId, typingUser, isTyping) ==
    IF roomId \in DOMAIN tu /\ typingUpdate(tu, roomId, typingUser, isTyping) = tu
    THEN << >>
    ELSE SendRoom(rs, rms, roomId, "typing",
                  typingUpdate(tu, roomId, typingUser, isTyping)[roomId])

\* the frames of broadcastTypingStatus
broadcastTypingStatus(rs, rms, tu, roomId, typingUser, isTyping) ==
    SendRoom(rs, rms, roomId, "typing",
             typingUpdate(tu, roomId, typingUser, isTyping)[roomId])

(***************************************************************************)
(* Initial state: the server listens, no connection has arrived.           *)
(***************************************************************************)
Init ==
    /\ readyState = [c \in Conns |-> "CONNECTING"]
    /\ handlers = [c \in Conns |-> FALSE]
    /\ heartbeat = [c \in Conns |-> FALSE]
    /\ destroyed = [c \in Conns |-> FALSE]
    /\ cRoom = [c \in Conns |-> Missing]
    /\ cNick = [c \in Conns |-> Missing]
    /\ roomKeys = << >>
    /\ rooms = << >>
    /\ messageBuffers = << >>
    /\ typingUsers = << >>
    /\ nextId = 0
    /\ out = << >>
    /\ last = Callback("init", "none", Missing, Missing, NoPayload)
    /\ phase = "running"

(***************************************************************************)
(* wss.on("connection"): connection c arrives asking for (roomId, nick).   *)
(***************************************************************************)
\* rooms after the room initialisation and cleanupUserConnections
roomsAtJoin(rs, rms, roomId, nick) ==
    Put(rms, roomId,
        IF roomId \in DOMAIN rms
        THEN cleanupUserConnections(rs, rms[roomId], nick)
        ELSE << >>)

\* buffersAtJoin without the `if (!rooms[roomId])` around the initialisation
buffersAtJoinAlways(rms, mb, roomId) == Put(mb, roomId, << >>)

\* messageBuffers after the room initialisation
buffersAtJoin(rms, mb, roomId) ==
    IF roomId \in DOMAIN rms THEN mb ELSE Put(mb, roomId, << >>)

\* typingAtJoin that keeps a typing set it finds (typingUsers[roomId] ||= new Set())
typingAtJoinKeep(rms, tu, roomId) ==
    IF roomId \in DOMAIN tu THEN tu ELSE Put(tu, roomId, << >>)

\* typingUsers after the room initialisation
typingAtJoin(rms, tu, roomId) ==
    IF roomId \in DOMAIN rms THEN tu ELSE Put(tu, roomId, << >>)

\* joinFrames with the connection confirmation sent first
joinFramesConnectedFirst(rs, joined, mb, tu, c, roomId, nick, now) ==
    Send(rs, c, "connected", "Successfully connected to the room")
    \o Send(rs, c, "history", mb[roomId])
    \o broadcastUserList(rs, joined, roomId)
    \o Send(rs, c, "typing", tu[roomId])
    \o broadcastSystemMessage(rs, joined, roomId, << nick, "joined the room" >>, now)

\* the frames of a successful join, in the order of the callback's sends
joinFrames(rs, joined, mb, tu, c, roomId, nick, now) ==
    Send(rs, c, "history", mb[roomId])
    \o broadcastUserList(rs, joined, roomId)
    \o Send(rs, c, "typing", tu[roomId])
    \o broadcastSystemMessage(rs, joined, roomId, << nick, "joined the room" >>, now)
    \o Send(rs, c, "connected", "Successfully connected to the room")

OnConnection(c, roomId, nick, now) ==
    /\ readyState[c] = "CONNECTING"
    /\ \A e \in Earlier(c) : readyState[e] # "CONNECTING"
    /\ \A x \in Before(roomId) : \E e \in Earlier(c) : cRoom[e] = x
    /\ \A x \in Before(nick) : \E e \in Earlier(c) : cNick[e] = x
    /\ cRoom' = [cRoom EXCEPT ![c] = roomId]
    /\ cNick' = [cNick EXCEPT ![c] = nick]
    /\ last' = Callback("connection", c, roomId, nick, NoPayload)
    /\ UNCHANGED << destroyed, nextId >>
    /\ IF roomId = Missing \/ nick = Missing
       THEN \* ws.close(1008, "Room and nick are required")
            /\ readyState' = [readyState EXCEPT ![c] = "CLOSING"]
            /\ out' = << Event(c, "close", 1008) >>
            /\ UNCHANGED << handlers, heartbeat, roomKeys, rooms,
                            messageBuffers, typingUsers >>
       ELSE LET rs  == [readyState EXCEPT ![c] = "OPEN"]
                rms == roomsAtJoin(rs, rooms, roomId, nick)
                mb  == buffersAtJoin(rooms, messageBuffers, roomId)
                tu  == typingAtJoin(rooms, typingUsers, roomId)
            IN  /\ roomKeys' = PutKey(roomKeys, roomId)
                /\ messageBuffers' = mb
                /\ typingUsers' = tu
                /\ IF existingUser(rs, rms[roomId], nick)
                   THEN \* error frame, then ws.close(1008, "Nickname already taken")
                        /\ rooms' = rms
                        /\ readyState' = [readyState EXCEPT ![c] = "CLOSING"]
                        /\ out' = Send(rs, c, "error", "Nickname already taken in this room")
                                  \o << Event(c, "close", 1008) >>
                        /\ UNCHANGED << handlers, heartbeat >>
                   ELSE LET joined == Put(rms, roomId,
                                          Append(rms[roomId],
                                                 [ws |-> c, nick |-> nick, roomId |-> roomId]))
                        IN  /\ rooms' = joined
                            /\ readyState' = rs
                            /\ handlers' = [handlers EXCEPT ![c] = TRUE]
                            /\ heartbeat' = [heartbeat EXCEPT ![c] = TRUE]
                            /\ out' = joinFrames(rs, joined, mb, tu, c, roomId, nick, now)

(***************************************************************************)
(* ws.on("message"): payload p arrives on connection c.                    *)
(***************************************************************************)
\* what the handler makes of the payload: the `type` of messageObj, "empty"
\* for the early return on an empty rawData, "throw" where reading the
\* object raises a TypeError (null.type, undefined.length)
Dispatch(p) ==
    CASE p.kind = "text" /\ Trim(p.s).core = 0 -> "empty"
      [] p.kind = "text"                       -> "message"
      [] p.kind = "typing"                     -> "typing"
      [] p.kind = "msgobj"                     -> "message"
      [] p.kind = "notext"                     -> "throw"
      [] p.kind = "null"                       -> "throw"
      [] OTHER                                 -> "none"

\* messageObj.text
TextOf(p) == IF p.kind = "text" THEN Trim(p.s) ELSE p.s

\* text.length > 500
TooLong(text) == Length(text) > MaxTextLength

\* the "nick" and "timestamp" fields of a msgobj payload that carries them
ForgedNick == "z"
ForgedTime == MaxClock + 1

\* messageOf that spreads the payload object over the server's fields
messageOfPayload(p, nick, now, id) ==
    IF p.kind = "msgobj" /\ p.flag
    THEN [nick |-> ForgedNick, text |-> TextOf(p), timestamp |-> ForgedTime, id |-> id]
    ELSE [nick |-> nick, text |-> TextOf(p), timestamp |-> now, id |-> id]

\* const message = { nick, text, timestamp: Date.now() }
messageOf(p, nick, now, id) ==
    [nick |-> nick, text |-> TextOf(p), timestamp |-> now, id |-> id]

\* appendMessage with pop() in place of shift()
appendMessagePop(buffer, message) ==
    LET pushed == Append(buffer, message)
    IN  IF Len(pushed) > MAX_MESSAGES THEN SubSeq(pushed, 1, MAX_MESSAGES) ELSE pushed

\* messageBuffers[roomId].push(message), then shift() when over MAX_MESSAGES
appendMessage(buffer, message) ==
    LET pushed == Append(buffer, message)
    IN  IF Len(pushed) > MAX_MESSAGES THEN Tail(pushed) ELSE pushed

\* the catch block: unicast error frame
SendFault(rs, c) == Send(rs, c, "error", "Error processing message")

OnMessage(c, p, now, cap) ==
    /\ handlers[c]
    /\ \/ readyState[c] = "OPEN"
       \/ readyState[c] = "CLOSING" /\ ~destroyed[c]
    /\ last' = Callback("message", c, cRoom[c], cNick[c], p)
    /\ UNCHANGED << readyState, handlers, heartbeat, destroyed, cRoom, cNick,
                    roomKeys, rooms >>
    /\ LET roomId == cRoom[c]
           nick   == cNick[c]
           kind   == Dispatch(p)
       IN  CASE kind \in {"empty", "none"} ->
                  /\ out' = << >>
                  /\ UNCHANGED << messageBuffers, typingUsers, nextId >>
             [] kind = "throw" ->
                  /\ out' = SendFault(readyState, c)
                  /\ UNCHANGED << messageBuffers, typingUsers, nextId >>
             [] kind = "typing" ->
                  /\ typingUsers' = typingUpdate(typingUsers, roomId, nick, p.flag)
                  /\ out' = broadcastTypingStatus(readyState, rooms, typingUsers,
                                                  roomId, nick, p.flag)
                  /\ UNCHANGED << messageBuffers, nextId >>
             [] kind = "message" /\ TooLong(TextOf(p)) ->
                  /\ out' = Send(readyState, c, "error",
                                 "Message too long (max 500 characters)")
                  /\ UNCHANGED << messageBuffers, typingUsers, nextId >>
             [] kind = "message" /\ ~TooLong(TextOf(p)) ->
                  LET cleared == roomId \in DOMAIN typingUsers
                      tu      == IF cleared
                                 THEN typingUpdate(typingUsers, roomId, nick, FALSE)
                                 ELSE typingUsers
                      typed   == IF cleared
                                 THEN broadcastTypingStatus(readyState, rooms, typingUsers,
                                                            roomId, nick, FALSE)
                                 ELSE << >>
                      message == messageOf(p, nick, now, nextId + 1)
                  IN  /\ nextId < cap
                      /\ typingUsers' = tu
                      /\ IF roomId \notin DOMAIN messageBuffers
                         THEN \* undefined.push: TypeError, caught
                              /\ out' = typed \o SendFault(readyState, c)
                              /\ UNCHANGED << messageBuffers, nextId >>
                         ELSE /\ messageBuffers' =
                                    Put(messageBuffers, roomId,
                                        appendMessage(messageBuffers[roomId], message))
                              /\ nextId' = nextId + 1
                              /\ out' = typed \o
                                    (IF roomId \in DOMAIN rooms
                                     THEN SendAll(readyState, rooms[roomId], "message", message)
                                     ELSE SendFault(readyState, c))

(***************************************************************************)
(* ws.on("close"): the library reports connection c closed.                *)
(***************************************************************************)
\* rooms[roomId].filter(client => client.ws !== ws)
removeClient(clients, c) == SelectSeq(clients, LAMBDA cl : cl.ws # c)

OnClose(c, now) ==
    /\ readyState[c] = "CLOSING"
    /\ last' = Callback("close", c, cRoom[c], cNick[c], NoPayload)
    /\ readyState' = [readyState EXCEPT ![c] = "CLOSED"]
    /\ destroyed' = [destroyed EXCEPT ![c] = FALSE]
    /\ UNCHANGED << handlers, cRoom, cNick, nextId >>
    /\ IF ~handlers[c]
       THEN /\ out' = << >>
            /\ UNCHANGED << heartbeat, roomKeys, rooms, messageBuffers, typingUsers >>
       ELSE LET roomId == cRoom[c]
                nick   == cNick[c]
                rs     == readyState'
            IN  /\ heartbeat' = [heartbeat EXCEPT ![c] = FALSE]
                /\ IF roomId \notin DOMAIN rooms
                   THEN /\ out' = << >>
                        /\ UNCHANGED << roomKeys, rooms, messageBuffers, typingUsers >>
                   ELSE LET rms     == Put(rooms, roomId, removeClient(rooms[roomId], c))
                            cleared == roomId \in DOMAIN typingUsers
                            tu      == IF cleared
                                       THEN typingUpdate(typingUsers, roomId, nick, FALSE)
                                       ELSE typingUsers
                            typed   == IF cleared
                                       THEN broadcastTypingStatus(rs, rms, typingUsers,
                                                                  roomId, nick, FALSE)
                                       ELSE << >>
                        IN  IF Len(rms[roomId]) > 0
                            THEN /\ rooms' = rms
                                 /\ typingUsers' = tu
                                 /\ out' = typed
                                        \o broadcastSystemMessage(rs, rms, roomId,
                                                                  << nick, "left the room" >>, now)
                                        \o broadcastUserList(rs, rms, roomId)
                                 /\ UNCHANGED << roomKeys, messageBuffers >>
                            ELSE /\ rooms' = Delete(rms, roomId)
                                 /\ messageBuffers' = Delete(messageBuffers, roomId)
                                 /\ typingUsers' = Delete(tu, roomId)
                                 /\ roomKeys' = DeleteKey(roomKeys, roomId)
                                 /\ out' = typed

(***************************************************************************)
(* ws.on("error") and the heartbeat timer of connection c.                 *)
(***************************************************************************)
OnError(c) ==
    /\ handlers[c]
    /\ readyState[c] \in {"OPEN", "CLOSING"}
    /\ last' = Other
    /\ readyState' = [readyState EXCEPT ![c] = "CLOSING"]
    /\ heartbeat' = [heartbeat EXCEPT ![c] = FALSE]
    /\ out' = << >>
    /\ UNCHANGED << handlers, destroyed, cRoom, cNick, roomKeys, rooms,
                    messageBuffers, typingUsers, nextId >>

Heartbeat(c) ==
    /\ heartbeat[c]
    /\ last' = Other
    /\ IF readyState[c] = "OPEN"
       THEN /\ out' = << Event(c, "ping", 0) >>
            /\ UNCHANGED heartbeat
       ELSE /\ out' = << >>
            /\ heartbeat' = [heartbeat EXCEPT ![c] = FALSE]
    /\ UNCHANGED << readyState, handlers, destroyed, cRoom, cNick, roomKeys, rooms,
                    messageBuffers, typingUsers, nextId >>

(***************************************************************************)
(* The periodic room sweep (every 15 s).                                   *)
(***************************************************************************)
\* activeClients that filters nothing
activeClientsAll(rs, clients) == clients

\* activeClients that keeps every connection that is not CLOSED
activeClientsNotClosed(rs, clients) == SelectSeq(clients, LAMBDA cl : rs[cl.ws] # "CLOSED")

\* rooms[roomId].filter(client => client.ws.readyState === OPEN)
activeClients(rs, clients) == SelectSeq(clients, LAMBDA cl : rs[cl.ws] = "OPEN")

\* activeClients.length !== beforeCleanup
sweepChanged(rs, clients) == Len(activeClients(rs, clients)) # Len(clients)

\* sweepDeletes without the empty-room branch
sweepDeletesNever(rs, clients) == FALSE

\* the room is deleted by the sweep
sweepDeletes(rs, clients) ==
    sweepChanged(rs, clients) /\ Len(activeClients(rs, clients)) = 0

\* typingUsers[roomId] after the removal of the users that are not connected
pruneTyping(typing, clients) ==
    SelectSeq(typing, LAMBDA u : \E i \in 1..Len(clients) : clients[i].nick = u)

RECURSIVE sweepFrames(_, _, _)
\* the userList frames of one pass over Object.keys(rooms)
sweepFrames(rs, rms, keys) ==
    IF keys = << >> THEN << >>
    ELSE LET roomId == Head(keys)
             active == activeClients(rs, rms[roomId])
         IN  (IF sweepChanged(rs, rms[roomId]) /\ ~sweepDeletes(rs, rms[roomId])
              THEN broadcastUserList(rs, Put(rms, roomId, active), roomId)
              ELSE << >>)
             \o sweepFrames(rs, rms, Tail(keys))

RoomSweep ==
    LET kept == { r \in DOMAIN rooms : ~sweepDeletes(readyState, rooms[r]) }
    IN  /\ last' = Callback("sweep", "none", Missing, Missing, NoPayload)
        /\ rooms' = [r \in kept |-> activeClients(readyState, rooms[r])]
        /\ roomKeys' = SelectSeq(roomKeys, LAMBDA r : r \in kept)
        /\ messageBuffers' = [r \in DOMAIN messageBuffers \ (DOMAIN rooms \ kept)
                                |-> messageBuffers[r]]
        /\ typingUsers' = [r \in DOMAIN typingUsers \ (DOMAIN rooms \ kept) |->
                             IF r \in DOMAIN rooms /\ sweepChanged(readyState, rooms[r])
                             THEN pruneTyping(typingUsers[r],
                                              activeClients(readyState, rooms[r]))
                             ELSE typingUsers[r]]
        /\ out' = sweepFrames(readyState, rooms, roomKeys)
        /\ UNCHANGED << readyState, handlers, heartbeat, destroyed, cRoom, cNick, nextId >>

(***************************************************************************)
(* The periodic sweep of wss.clients (every 10 s): ws.terminate() on every *)
(* connection that is not OPEN.                                            *)
(***************************************************************************)
TerminateSweep ==
    /\ last' = Other
    /\ destroyed' = [c \in Conns |-> destroyed[c] \/ readyState[c] = "CLOSING"]
    /\ out' = << >>
    /\ UNCHANGED << readyState, handlers, heartbeat, cRoom, cNick, roomKeys, rooms,
                    messageBuffers, typingUsers, nextId >>

(***************************************************************************)
(* Environment: the transport of c goes down (close frame received, socket *)
(* closed or reset).                                                       *)
(***************************************************************************)
PeerDrop(c) ==
    /\ readyState[c] = "OPEN"
    /\ last' = Other
    /\ readyState' = [readyState EXCEPT ![c] = "CLOSING"]
    /\ out' = << >>
    /\ UNCHANGED << handlers, heartbeat, destroyed, cRoom, cNick, roomKeys, rooms,
                    messageBuffers, typingUsers, nextId >>

(***************************************************************************)
(* gracefulShutdown, the handler of SIGINT and SIGTERM, and the callbacks   *)
(* it chains: wss.close(() => server.close(() => process.exit(0))).         *)
(***************************************************************************)
\* process.exit has not run
Alive == phase # "exited"

\* the connections of wss.clients, in the order they arrived
wssClients(rs) ==
    LET arrived == { c \in Conns : rs[c] \notin {"CONNECTING", "CLOSED"} }
    IN  [i \in 1..Cardinality(arrived) |->
            CHOOSE c \in arrived : Cardinality(Earlier(c) \cap arrived) = i - 1]

\* shutdownFrames that closes no connection
shutdownFramesNone(rs) == << >>

\* wss.clients.forEach(ws => { if (ws.readyState === OPEN) ws.close(1001, ..) })
shutdownFrames(rs) ==
    LET open == SelectSeq(wssClients(rs), LAMBDA c : rs[c] = "OPEN")
    IN  [i \in 1..Len(open) |-> Event(open[i], "close", CloseGoingAway)]

\* the signal handler: close frames, then wss.close(..)
gracefulShutdown ==
    /\ Alive
    /\ last' = Callback("shutdown", "none", Missing, Missing, NoPayload)
    /\ out' = shutdownFrames(readyState)
    /\ readyState' = [c \in Conns |->
                        IF \E i \in 1..Len(out') : out'[i].to = c
                        THEN "CLOSING" ELSE readyState[c]]
    /\ phase' = IF phase = "running" THEN "wssClosing" ELSE phase
    /\ UNCHANGED << handlers, heartbeat, destroyed, cRoom, cNick, roomKeys, rooms,
                    messageBuffers, typingUsers, nextId >>

\* the callback of wss.close: server.close(..)
OnWssClosed ==
    /\ phase = "wssClosing"
    /\ wssClients(readyState) = << >>
    /\ last' = Other
    /\ out' = << >>
    /\ phase' = "httpClosing"
    /\ UNCHANGED << readyState, handlers, heartbeat, destroyed, cRoom, cNick, roomKeys,
                    rooms, messageBuffers, typingUsers, nextId >>

\* the callback of server.close: process.exit(0)
OnServerClosed ==
    /\ phase = "httpClosing"
    /\ last' = Other
    /\ out' = << >>
    /\ phase' = "exited"
    /\ UNCHANGED << readyState, handlers, heartbeat, destroyed, cRoom, cNick, roomKeys,
                    rooms, messageBuffers, typingUsers, nextId >>

(***************************************************************************)
(* The server under every interleaving of its callbacks.                   *)
(***************************************************************************)
\* one step of the server with the connections, join parameters and payloads
\* of the given sets, Date.now() in TS, accepting at most cap chat messages
\* (a closed WebSocket server emits no "connection"; an exited process runs
\* no callback)
NextOver(CS, RS, NS, PS, TS, cap) ==
    \/ \E c \in CS, roomId \in RS \cup {Missing}, nick \in NS \cup {Missing}, now \in TS :
          phase = "running" /\ OnConnection(c, roomId, nick, now) /\ UNCHANGED phase
    \/ \E c \in CS, p \in PS, now \in TS : Alive /\ OnMessage(c, p, now, cap) /\ UNCHANGED phase
    \/ \E c \in CS, now \in TS : Alive /\ OnClose(c, now) /\ UNCHANGED phase
    \/ \E c \in CS : Alive /\ OnError(c) /\ UNCHANGED phase
    \/ \E c \in CS : Alive /\ Heartbeat(c) /\ UNCHANGED phase
    \/ \E c \in CS : Alive /\ PeerDrop(c) /\ UNCHANGED phase
    \/ Alive /\ RoomSweep /\ UNCHANGED phase
    \/ Alive /\ TerminateSweep /\ UNCHANGED phase

\* the payloads of the lifecycle specification: a chat line and the two
\* typing-control messages
LifePayloads ==
    { Payload("text", Str(1, 1), FALSE, 0),
      Payload("typing", Str(0, 0), TRUE, 0),
      Payload("typing", Str(0, 0), FALSE, 0) }

Next == NextOver(Conns, RoomIds, Nicks, LifePayloads, Times, MaxMsgs)

Spec == Init /\ [][Next]_vars

\* every payload shape, the connections in one room
NextPayload == NextOver(Conns, {"r1"}, Nicks, Payloads, Times, PayloadMsgs)

SpecPayload == Init /\ [][NextPayload]_vars

\* one connection that fills the history buffer beyond its capacity
NextHistory ==
    NextOver({"w1"}, {"r1"}, {"a"}, {Payload("text", Str(1, 1), FALSE, 0)}, {0}, HistMsgs)

\* the server of one room with the shutdown signal
NextShutdown ==
    \/ NextOver(Conns, {"r1"}, Nicks, {Payload("typing", Str(0, 0), TRUE, 0)}, {0}, MaxMsgs)
    \/ gracefulShutdown
    \/ OnWssClosed
    \/ OnServerClosed

SpecShutdown == Init /\ [][NextShutdown]_vars

\* the server whose two sweep timers keep firing
NextLive ==
    NextOver(Conns, RoomIds, Nicks, {Payload("typing", Str(0, 0), TRUE, 0)}, {0}, MaxMsgs)

SpecLive ==
    /\ Init
    /\ [][NextLive]_vars
    /\ WF_vars(RoomSweep /\ UNCHANGED phase)
    /\ WF_vars(TerminateSweep /\ UNCHANGED phase)

SpecHistory == Init /\ [][NextHistory]_vars

(***************************************************************************)
(* Vocabulary of the properties.                                           *)
(***************************************************************************)
\* connection c is in the client list of room r of the store rms
ListedIn(rms, r, c) ==
    r \in DOMAIN rms /\ \E i \in 1..Len(rms[r]) : rms[r][i].ws = c

\* connection c is in some client list
Listed(rms, c) == \E r \in DOMAIN rms : ListedIn(rms, r, c)

\* some client of room r with nick n has an OPEN connection
OpenHolder(rs, rms, r, n) ==
    /\ r \in DOMAIN rms
    /\ \E i \in 1..Len(rms[r]) : rms[r][i].nick = n /\ rs[rms[r][i].ws] = "OPEN"

\* the step is the connection callback of c
Arrives(c) == readyState[c] = "CONNECTING" /\ readyState'[c] # "CONNECTING"

\* the step is the message callback of c for payload p
Receives(c, p) == handlers[c] /\ last' = Callback("message", c, cRoom[c], cNick[c], p)

\* the sequence has no element twice
NoDuplicates(seq) == \A i, j \in 1..Len(seq) : seq[i] = seq[j] => i = j

\* the frames of `type` written to connection c, in order
FramesTo(frames, c, type) == SelectSeq(frames, LAMBDA e : e.to = c /\ e.type = type)

\* the frames of `type`, in order
FramesOf(frames, type) == SelectSeq(frames, LAMBDA e : e.type = type)

(***************************************************************************)
(* C1.  In every reachable state, in every room of the store, no two       *)
(* clients of the room's client list whose connections are OPEN hold the   *)
(* same nick.                                                              *)
(***************************************************************************)
C1_OpenNickUnique ==
    \A r \in DOMAIN rooms : \A i, j \in 1..Len(rooms[r]) :
        ( /\ i # j
          /\ readyState[rooms[r][i].ws] = "OPEN"
          /\ readyState[rooms[r][j].ws] = "OPEN" )
        => rooms[r][i].nick # rooms[r][j].nick

\* a join for a nick was just handled in a room where another connection
\* holds that nick with an OPEN connection
C1_Witness ==
    /\ last.op = "connection"
    /\ \E c \in Conns \ {last.c} :
          /\ ListedIn(rooms, last.roomId, c)
          /\ cNick[c] = last.nick
          /\ readyState[c] = "OPEN"

(***************************************************************************)
(* C2.  A join for (room, nick) that arrives while a client with that nick *)
(* and an OPEN connection is registered in the room is rejected: the new   *)
(* connection is written the error frame "Nickname already taken in this   *)
(* room" and then closed with code 1008, it gets no handlers, it is not in *)
(* any client list then or later, and no userList frame lists a nick twice.*)
(***************************************************************************)
C2_Step ==
    /\ \A c \in Conns :
          ( Arrives(c) /\ OpenHolder(readyState, rooms, cRoom'[c], cNick'[c]) )
          => /\ out' = << Event(c, "error", "Nickname already taken in this room"),
                          Event(c, "close", 1008) >>
             /\ readyState'[c] = "CLOSING"
             /\ ~handlers'[c]
             /\ ~Listed(rooms', c)
    /\ \A c \in Conns :
          ( readyState[c] # "CONNECTING" /\ ~handlers[c] )
          => ( ~handlers'[c] /\ ~Listed(rooms', c) )
    /\ \A i \in 1..Len(out') :
          out'[i].type = "userList" => NoDuplicates(out'[i].body)

C2_DuplicateJoinRejected == [][C2_Step]_vars

\* a join was just rejected for a nick held by an OPEN connection
C2_Witness ==
    /\ last.op = "connection"
    /\ OpenHolder(readyState, rooms, last.roomId, last.nick)
    /\ ~Listed(rooms, last.c)
    /\ out = << Event(last.c, "error", "Nickname already taken in this room"),
                Event(last.c, "close", 1008) >>

(***************************************************************************)
(* C3.  A join for (room, nick), both given, succeeds whenever no client   *)
(* of the room with that nick has an OPEN connection: the connection is in *)
(* the room's client list and has its handlers, also when a record with    *)
(* the nick and a connection that is not OPEN is still in the list.        *)
(***************************************************************************)
C3_Step ==
    \A c \in Conns :
        ( /\ Arrives(c)
          /\ cRoom'[c] # Missing
          /\ cNick'[c] # Missing
          /\ ~OpenHolder(readyState, rooms, cRoom'[c], cNick'[c]) )
        => /\ ListedIn(rooms', cRoom'[c], c)
           /\ handlers'[c]
           /\ readyState'[c] = "OPEN"

C3_StaleNickReusable == [][C3_Step]_vars

\* a join just succeeded under a nick that a registered connection of the
\* same room, not OPEN and with its close event still to come, joined with
C3_Witness ==
    /\ last.op = "connection"
    /\ ListedIn(rooms, last.roomId, last.c)
    /\ \E c \in Conns \ {last.c} :
          /\ handlers[c]
          /\ cRoom[c] = last.roomId
          /\ cNick[c] = last.nick
          /\ readyState[c] = "CLOSING"

(***************************************************************************)
(* C4.  Every history buffer holds at most 50 messages in every reachable  *)
(* state, and a chat message accepted in a room whose buffer holds 50      *)
(* evicts exactly the oldest one: the former 1st message is gone, the      *)
(* former 2nd is first, the new message is last.                           *)
(***************************************************************************)
C4_Bounded ==
    \A r \in DOMAIN messageBuffers : Len(messageBuffers[r]) <= MAX_MESSAGES

C4_Step ==
    \A r \in DOMAIN messageBuffers :
        ( /\ Len(messageBuffers[r]) = MAX_MESSAGES
          /\ last'.op = "message" /\ last'.roomId = r
          /\ nextId' # nextId )
        => /\ r \in DOMAIN messageBuffers'
           /\ Len(messageBuffers'[r]) = MAX_MESSAGES
           /\ messageBuffers'[r][1] = messageBuffers[r][2]
           /\ messageBuffers[r][1] \notin Range(messageBuffers'[r])
           /\ SubSeq(messageBuffers'[r], 1, MAX_MESSAGES - 1) = Tail(messageBuffers[r])
           /\ messageBuffers'[r][MAX_MESSAGES].id = nextId'

C4_HistoryFifo == []C4_Bounded /\ [][C4_Step]_vars

\* the 51st message of a room was just accepted: the buffer is full and
\* starts at the 2nd message
C4_Witness ==
    \E r \in DOMAIN messageBuffers :
        /\ Len(messageBuffers[r]) = MAX_MESSAGES
        /\ messageBuffers[r][1].id = 2
        /\ messageBuffers[r][MAX_MESSAGES].id = MAX_MESSAGES + 1
        /\ last.op = "message"

(***************************************************************************)
(* C5.  A successful join to a room id that is not in the store (its       *)
(* client list became empty and the room was removed) is sent a history    *)
(* frame with no messages and a typing frame with no users, whatever the   *)
(* previous room of that id held.                                          *)
(***************************************************************************)
C5_Step ==
    \A c \in Conns :
        ( Arrives(c) /\ handlers'[c] /\ cRoom'[c] \notin DOMAIN rooms )
        => /\ FramesTo(out', c, "history") = << Event(c, "history", << >>) >>
           /\ FramesTo(out', c, "typing") = << Event(c, "typing", << >>) >>
           /\ messageBuffers'[cRoom'[c]] = << >>
           /\ typingUsers'[cRoom'[c]] = << >>

C5_FreshRoomAfterEmpty == [][C5_Step]_vars

\* a connection just joined, alone, a room id whose previous room held a
\* message of another connection
C5_Witness ==
    /\ last.op = "connection"
    /\ ListedIn(rooms, last.roomId, last.c)
    /\ Len(rooms[last.roomId]) = 1
    /\ messageBuffers[last.roomId] = << >>
    /\ nextId > 0
    /\ \A c \in Conns \ {last.c} : handlers[c] /\ cRoom[c] = last.roomId

(***************************************************************************)
(* C6.  No callback leaves a room with an empty client list in the store,  *)
(* and a room that leaves the store loses its client list, its history     *)
(* buffer and its typing set in the same step.                             *)
(***************************************************************************)
C6_NoEmptyRoom ==
    /\ \A r \in DOMAIN rooms : Len(rooms[r]) > 0
    /\ DOMAIN messageBuffers = DOMAIN rooms
    /\ Range(roomKeys) = DOMAIN rooms

C6_Step ==
    \A r \in DOMAIN rooms \ DOMAIN rooms' :
        r \notin DOMAIN messageBuffers' /\ r \notin DOMAIN typingUsers'

C6_EmptyRoomRemoved == []C6_NoEmptyRoom /\ [][C6_Step]_vars

\* the close callback of a registered connection has completed and the
\* room it had joined, which held messages, is in none of the three maps
C6_Witness ==
    /\ last.op = "close"
    /\ handlers[last.c]
    /\ nextId > 0
    /\ last.roomId \notin DOMAIN rooms
    /\ last.roomId \notin DOMAIN messageBuffers
    /\ last.roomId \notin DOMAIN typingUsers
    /\ \A c \in Conns \ {last.c} : readyState[c] = "CONNECTING"

(***************************************************************************)
(* C7.  When a room sweep has just completed, a room id is in the store    *)
(* iff a registered connection of that room is OPEN, and every client of   *)
(* every client list has an OPEN connection.                               *)
(***************************************************************************)
C7_AfterSweep ==
    last.op = "sweep" =>
        /\ \A r \in RoomIds :
              r \in DOMAIN rooms <=>
                 \E c \in Conns : handlers[c] /\ cRoom[c] = r /\ readyState[c] = "OPEN"
        /\ \A r \in DOMAIN rooms : \A i \in 1..Len(rooms[r]) :
              readyState[rooms[r][i].ws] = "OPEN"
        /\ \A r \in DOMAIN rooms :
              \E i \in 1..Len(rooms[r]) : readyState[rooms[r][i].ws] = "OPEN"

\* a sweep has just completed; a room survives with an OPEN client while a
\* registered connection of that room, not OPEN, is out of the list with
\* its close event still to come
C7_Witness ==
    /\ last.op = "sweep"
    /\ \E c, d \in Conns :
          /\ handlers[c] /\ readyState[c] = "CLOSING" /\ ~Listed(rooms, c)
          /\ cRoom[d] = cRoom[c] /\ ListedIn(rooms, cRoom[c], d)

(***************************************************************************)
(* Vocabulary of the payload properties.                                   *)
(***************************************************************************)
\* the payload is chat: anything but a typing-control message
IsChat(p) == p.kind # "typing"

\* the chat text of a payload taken verbatim: its trimmed raw characters
RawText(p) == Str(RawLen(p), 0)

\* the text counts 1 to 500 characters after trimming
TextValid(text) == Length(Trim(text)) >= 1 /\ Length(Trim(text)) <= MaxTextLength

\* the step appends exactly one message with the given text to the history
\* of room r and sends it, and nothing else of type message, to the OPEN
\* clients of the room
AppendsAndBroadcasts(r, text) ==
    /\ r \in DOMAIN messageBuffers /\ r \in DOMAIN messageBuffers' /\ r \in DOMAIN rooms
    /\ nextId' = nextId + 1
    /\ \A q \in DOMAIN messageBuffers' \ {r} :
          q \in DOMAIN messageBuffers /\ messageBuffers'[q] = messageBuffers[q]
    /\ LET buffer == messageBuffers'[r]
           stored == buffer[Len(buffer)]
       IN  /\ Len(buffer) > 0
           /\ stored.id = nextId'
           /\ stored.text = text
           /\ buffer = appendMessage(messageBuffers[r], stored)
           /\ FramesOf(out', "message") = SendAll(readyState, rooms[r], "message", stored)

\* the step leaves every history buffer and every typing set as it was
StoreUntouched ==
    /\ messageBuffers' = messageBuffers
    /\ typingUsers' = typingUsers
    /\ rooms' = rooms
    /\ nextId' = nextId

(***************************************************************************)
(* C8.  Every inbound payload of an OPEN registered connection that is not *)
(* a typing-control message and counts 1 to 500 characters after trimming  *)
(* is chat text verbatim: it causes exactly one history append and one     *)
(* room-wide message broadcast, with the trimmed raw payload as text,      *)
(* whether or not the payload parses as JSON.                              *)
(***************************************************************************)
C8_Step ==
    \A c \in Conns, p \in Payloads :
        ( /\ Receives(c, p)
          /\ readyState[c] = "OPEN"
          /\ IsChat(p)
          /\ RawLen(p) >= 1 /\ RawLen(p) <= MaxTextLength )
        => AppendsAndBroadcasts(cRoom[c], RawText(p))

C8_NonTypingPayloadIsChat == [][C8_Step]_vars

(***************************************************************************)
(* C9.  Every message in a history buffer or in a message frame has a text *)
(* of 1 to 500 characters after trimming; a chat payload that is empty     *)
(* after trimming causes no append, no frame of type message and no frame  *)
(* of type error.                                                          *)
(***************************************************************************)
C9_TextsValid ==
    /\ \A r \in DOMAIN messageBuffers : \A i \in 1..Len(messageBuffers[r]) :
          TextValid(messageBuffers[r][i].text)
    /\ \A i \in 1..Len(out) : out[i].type = "message" => TextValid(out[i].body.text)

C9_Step ==
    \A c \in Conns, p \in Payloads :
        ( Receives(c, p) /\ IsChat(p) /\ RawLen(p) = 0 )
        => /\ StoreUntouched
           /\ FramesOf(out', "message") = << >>
           /\ FramesOf(out', "error") = << >>

C9_StoredTextTrimmedNonEmpty == []C9_TextsValid /\ [][C9_Step]_vars

(***************************************************************************)
(* C10.  A chat payload of an OPEN registered connection that counts 501   *)
(* or more characters after trimming is answered by exactly one error      *)
(* frame "Message too long (max 500 characters)" to the sender and nothing *)
(* else: history, typing sets and client lists are unchanged and the       *)
(* sender stays OPEN; a chat payload of exactly 500 characters is appended *)
(* to the history and broadcast.                                           *)
(***************************************************************************)
C10_Step ==
    \A c \in Conns, p \in Payloads :
        ( Receives(c, p) /\ readyState[c] = "OPEN" /\ IsChat(p) )
        => /\ RawLen(p) > MaxTextLength =>
                /\ out' = << Event(c, "error", "Message too long (max 500 characters)") >>
                /\ StoreUntouched
                /\ readyState'[c] = "OPEN"
                /\ ListedIn(rooms', cRoom[c], c)
           /\ RawLen(p) = MaxTextLength =>
                AppendsAndBroadcasts(cRoom[c], RawText(p))

C10_LengthLimit == [][C10_Step]_vars

(***************************************************************************)
(* Vocabulary of the broadcast properties.                                 *)
(***************************************************************************)
\* the connections of the client list of room r that are OPEN, in list order
OpenMembers(rs, rms, r) ==
    IF r \in DOMAIN rms
    THEN LET open == SelectSeq(rms[r], LAMBDA cl : rs[cl.ws] = "OPEN")
         IN  [i \in 1..Len(open) |-> open[i].ws]
    ELSE << >>

\* the connections the frames are written to, in order
Recipients(frames) == [i \in 1..Len(frames) |-> frames[i].to]

\* the nicks in the typing set of room r
TypingNicks(tu, r) == IF r \in DOMAIN tu THEN Range(tu[r]) ELSE {}

\* every typing set but that of room r is as it was
OtherTypingUntouched(r) ==
    /\ DOMAIN typingUsers \subseteq DOMAIN typingUsers'
    /\ \A q \in DOMAIN typingUsers' \ {r} :
          q \in DOMAIN typingUsers /\ typingUsers'[q] = typingUsers[q]

(***************************************************************************)
(* C11.  A typing-control payload appends to no history buffer and sends   *)
(* no frame of type message: it sets the sender's nick in or out of its    *)
(* room's typing set and sends one typing frame, with the resulting list,  *)
(* to every OPEN client of the room, also when the set did not change.     *)
(***************************************************************************)
C11_Step ==
    \A c \in Conns, p \in LifePayloads :
        ( Receives(c, p) /\ p.kind = "typing" )
        => LET r == cRoom[c]
               n == cNick[c]
           IN  /\ messageBuffers' = messageBuffers
               /\ nextId' = nextId
               /\ rooms' = rooms
               /\ OtherTypingUntouched(r)
               /\ r \in DOMAIN typingUsers'
               /\ NoDuplicates(typingUsers'[r])
               /\ TypingNicks(typingUsers', r) =
                     IF p.flag THEN TypingNicks(typingUsers, r) \cup {n}
                               ELSE TypingNicks(typingUsers, r) \ {n}
               /\ Recipients(out') = OpenMembers(readyState, rooms, r)
               /\ \A i \in 1..Len(out') :
                     out'[i].type = "typing" /\ out'[i].body = typingUsers'[r]

C11_TypingPayloadEffects == [][C11_Step]_vars

\* a typing-control payload was just handled in a room that holds a chat
\* message: typing frames went out, the history is as it was
C11_Witness ==
    /\ last.op = "message"
    /\ last.p.kind = "typing"
    /\ Len(out) > 0
    /\ last.roomId \in DOMAIN messageBuffers
    /\ Len(messageBuffers[last.roomId]) > 0

(***************************************************************************)
(* C12.  When an OPEN client whose nick is in the typing set sends a valid *)
(* chat line, the nick leaves the typing set, every OPEN client of the     *)
(* room is sent a typing frame without the nick and then the message       *)
(* frame, and exactly one history entry, the chat message, is appended.    *)
(***************************************************************************)
C12_Step ==
    \A c \in Conns, p \in LifePayloads :
        ( /\ Receives(c, p)
          /\ readyState[c] = "OPEN"
          /\ p.kind = "text" /\ TextValid(p.s)
          /\ cNick[c] \in TypingNicks(typingUsers, cRoom[c]) )
        => LET r == cRoom[c]
               n == cNick[c]
               members == OpenMembers(readyState, rooms, r)
           IN  /\ TypingNicks(typingUsers', r) = TypingNicks(typingUsers, r) \ {n}
               /\ OtherTypingUntouched(r)
               /\ nextId' = nextId + 1
               /\ Len(messageBuffers'[r]) = Len(messageBuffers[r]) + 1
               /\ SubSeq(messageBuffers'[r], 1, Len(messageBuffers[r])) = messageBuffers[r]
               /\ messageBuffers'[r][Len(messageBuffers'[r])].text = Trim(p.s)
               /\ messageBuffers'[r][Len(messageBuffers'[r])].nick = n
               /\ Recipients(out') = members \o members
               /\ \A i \in 1..Len(out') :
                     IF i <= Len(members)
                     THEN /\ out'[i].type = "typing"
                          /\ out'[i].body = typingUsers'[r]
                          /\ n \notin Range(out'[i].body)
                     ELSE /\ out'[i].type = "message"
                          /\ out'[i].body = messageBuffers'[r][Len(messageBuffers'[r])]

C12_ChatClearsTyping == [][C12_Step]_vars

\* a chat line was just stored and sent, preceded by a typing frame, while
\* the other nick of the room stays in the typing set
C12_Witness ==
    /\ last.op = "message"
    /\ last.p.kind = "text"
    /\ Len(out) >= 2
    /\ out[1].type = "typing"
    /\ out[Len(out)].type = "message"
    /\ last.roomId \in DOMAIN typingUsers
    /\ Len(typingUsers[last.roomId]) = 1
    /\ last.nick \notin Range(typingUsers[last.roomId])

(***************************************************************************)
(* C13.  As claimed: on a successful join the joining connection receives  *)
(* connected, history, userList, typing and the system join notice, in     *)
(* this order, connected first.  The code sends the confirmation last.     *)
(***************************************************************************)
\* the types of the frames written to connection c, in order
TypesTo(frames, c) ==
    LET mine == SelectSeq(frames, LAMBDA e : e.to = c)
    IN  [i \in 1..Len(mine) |-> mine[i].type]

\* the last callback was a successful join
JustJoined ==
    /\ last.op = "connection"
    /\ handlers[last.c]
    /\ ListedIn(rooms, last.roomId, last.c)

C13_ConnectedFirst ==
    JustJoined =>
        TypesTo(out, last.c) = << "connected", "history", "userList", "typing", "system" >>

(***************************************************************************)
(* C13, amended.  On a successful join the joining connection receives     *)
(* history, userList, typing, the system join notice and connected, in     *)
(* this order: connected is the last frame of the join, written after the  *)
(* room-wide userList and system frames.                                   *)
(***************************************************************************)
C13_ConnectedLast ==
    JustJoined =>
        /\ TypesTo(out, last.c) = << "history", "userList", "typing", "system", "connected" >>
        /\ out[Len(out)] = Event(last.c, "connected", "Successfully connected to the room")

\* a connection just joined a room that another OPEN client is in
C13_Witness ==
    /\ JustJoined
    /\ Len(rooms[last.roomId]) = 2
    /\ \A i \in 1..2 : readyState[rooms[last.roomId][i].ws] = "OPEN"

(***************************************************************************)
(* C14.  A join that is rejected (room missing, nick missing, or nick held *)
(* by an OPEN client of the room) changes nothing in the store: rooms,     *)
(* their key order, client lists, history buffers and typing sets are as   *)
(* before, every frame goes to the rejected connection, and no handler or  *)
(* heartbeat timer is installed for it.                                    *)
(***************************************************************************)
C14_Step ==
    \A c \in Conns :
        ( /\ Arrives(c)
          /\ \/ cRoom'[c] = Missing
             \/ cNick'[c] = Missing
             \/ OpenHolder(readyState, rooms, cRoom'[c], cNick'[c]) )
        => /\ rooms' = rooms
           /\ roomKeys' = roomKeys
           /\ messageBuffers' = messageBuffers
           /\ typingUsers' = typingUsers
           /\ nextId' = nextId
           /\ \A i \in 1..Len(out') : out'[i].to = c
           /\ handlers' = handlers /\ ~handlers'[c]
           /\ heartbeat' = heartbeat /\ ~heartbeat'[c]

C14_RejectedJoinNoEffect == [][C14_Step]_vars

\* a join was just rejected for a nick held by an OPEN connection, in a
\* room with a message in its history and a nick in its typing set
C14_Witness ==
    /\ last.op = "connection"
    /\ ~handlers[last.c]
    /\ OpenHolder(readyState, rooms, last.roomId, last.nick)
    /\ Len(messageBuffers[last.roomId]) > 0
    /\ Len(typingUsers[last.roomId]) > 0

(***************************************************************************)
(* C15.  Every room-wide frame (userList, typing, system, message) goes to *)
(* an OPEN client of the room it is about and to no connection of another  *)
(* room; each broadcast of a callback for room R reaches exactly the OPEN  *)
(* clients of R's client list; a chat message changes no history buffer    *)
(* but that of the sender's room.                                          *)
(***************************************************************************)
RoomWide == {"userList", "typing", "system", "message"}

\* the broadcasts of `type` of the step, if any, reach exactly the OPEN
\* clients of room r
ReachesRoom(type, r) ==
    LET to == Recipients(FramesOf(out', type))
        members == OpenMembers(readyState', rooms', r)
    IN  to = << >> \/ to = members \/ to = members \o members

C15_Step ==
    /\ \A i \in 1..Len(out') :
          out'[i].type \in RoomWide =>
             /\ readyState'[out'[i].to] = "OPEN"
             /\ ListedIn(rooms', cRoom'[out'[i].to], out'[i].to)
             /\ last'.op \in {"connection", "message", "close"} =>
                   cRoom'[out'[i].to] = last'.roomId
    /\ last'.op = "connection" =>
          /\ ReachesRoom("userList", last'.roomId)
          /\ ReachesRoom("system", last'.roomId)
          /\ Len(FramesOf(out', "userList")) <= Len(OpenMembers(readyState', rooms', last'.roomId))
    /\ last'.op = "message" =>
          /\ ReachesRoom("typing", last'.roomId)
          /\ ReachesRoom("message", last'.roomId)
          /\ Len(FramesOf(out', "message")) <= Len(OpenMembers(readyState', rooms', last'.roomId))
    /\ last'.op = "close" =>
          /\ ReachesRoom("typing", last'.roomId)
          /\ ReachesRoom("system", last'.roomId)
          /\ ReachesRoom("userList", last'.roomId)
    /\ last'.op = "sweep" =>
          \A r \in DOMAIN rooms' :
             LET to == SelectSeq(out', LAMBDA e : cRoom[e.to] = r)
             IN  Recipients(to) = << >> \/ Recipients(to) = OpenMembers(readyState', rooms', r)
    /\ \A c \in Conns, p \in LifePayloads :
          Receives(c, p) =>
             /\ DOMAIN messageBuffers' = DOMAIN messageBuffers
             /\ \A q \in DOMAIN messageBuffers \ {cRoom[c]} :
                   messageBuffers'[q] = messageBuffers[q]

C15_RoomIsolation == [][C15_Step]_vars

\* a chat message was just stored and sent in one room while the other
\* room has an OPEN client and an empty history
C15_Witness ==
    /\ last.op = "message"
    /\ Len(FramesOf(out, "message")) = 1
    /\ \E r \in DOMAIN rooms \ {last.roomId} :
          /\ OpenMembers(readyState, rooms, r) # << >>
          /\ messageBuffers[r] = << >>

(***************************************************************************)
(* C16.  On SIGINT or SIGTERM every connection that is OPEN when           *)
(* gracefulShutdown starts is sent a close frame with code 1001, and is no *)
(* longer OPEN afterwards; the WebSocket server is closed, the HTTP        *)
(* listener closed and the process exited only after that step, in this    *)
(* order.                                                                  *)
(***************************************************************************)
C16_Step ==
    /\ last'.op = "shutdown" =>
          /\ \A c \in Conns :
                Len(SelectSeq(out', LAMBDA e : e = Event(c, "close", 1001)))
                   = IF readyState[c] = "OPEN" THEN 1 ELSE 0
          /\ \A c \in Conns : readyState'[c] # "OPEN"
          /\ phase' \notin {"running", "exited"}
    /\ ( phase = "running" /\ phase' # "running" ) =>
          last'.op = "shutdown" /\ phase' = "wssClosing"
    /\ ( phase = "wssClosing" /\ phase' # phase ) => phase' = "httpClosing"
    /\ ( phase = "httpClosing" /\ phase' # phase ) => phase' = "exited"
    /\ phase # "running" => \A c \in Conns : readyState'[c] # "OPEN"

C16_ShutdownClosesFirst == [][C16_Step]_vars

\* gracefulShutdown just sent the close frame to two OPEN connections
C16_Witness ==
    /\ last.op = "shutdown"
    /\ phase = "wssClosing"
    /\ Len(out) = 2
    /\ \A c \in Conns : readyState[c] = "CLOSING" /\ handlers[c]

(***************************************************************************)
(* C17.  As claimed: a typing frame is broadcast on every change of a      *)
(* room's typing set.  After every step, each OPEN client of a room has    *)
(* either been sent a typing frame whose list is the room's typing set     *)
(* after the step, or it was a client of the room before the step and the  *)
(* typing set is as it was.  The room sweep prunes the set silently.       *)
(***************************************************************************)
C17_Step ==
    \A r \in DOMAIN rooms' :
        \A i \in 1..Len(rooms'[r]) :
            LET c == rooms'[r][i].ws
                sent == FramesTo(out', c, "typing")
            IN  readyState'[c] = "OPEN" =>
                   IF sent # << >>
                   THEN sent[Len(sent)].body = typingUsers'[r]
                   ELSE /\ ListedIn(rooms, r, c)
                        /\ r \in DOMAIN typingUsers
                        /\ typingUsers'[r] = typingUsers[r]

C17_TypingBroadcastOnChange == [][C17_Step]_vars

(***************************************************************************)
(* C18.  A userList frame is broadcast on every membership change: after   *)
(* every step, each OPEN client of a room has either been sent a userList  *)
(* frame whose list is the nicks of the room's client list after the step, *)
(* in join order, or it was a client of the room before the step and the   *)
(* client list is as it was.                                               *)
(***************************************************************************)
\* the nicks of a client list, in its order
NicksOf(clients) == [i \in 1..Len(clients) |-> clients[i].nick]

C18_Step ==
    \A r \in DOMAIN rooms' :
        \A i \in 1..Len(rooms'[r]) :
            LET c == rooms'[r][i].ws
                sent == FramesTo(out', c, "userList")
            IN  readyState'[c] = "OPEN" =>
                   IF sent # << >>
                   THEN sent[Len(sent)].body = NicksOf(rooms'[r])
                   ELSE /\ ListedIn(rooms, r, c)
                        /\ rooms'[r] = rooms[r]

C18_UserListOnChange == [][C18_Step]_vars

\* the sweep just removed a dead client from a room and told the OPEN one
C18_Witness ==
    /\ last.op = "sweep"
    /\ \E r \in DOMAIN rooms :
          /\ Len(rooms[r]) = 1
          /\ readyState[rooms[r][1].ws] = "OPEN"
          /\ SelectSeq(out, LAMBDA e : e.type = "userList")
                = << Event(rooms[r][1].ws, "userList", << rooms[r][1].nick >>) >>

(***************************************************************************)
(* C19.  As claimed: the typing status of a registered client with an OPEN *)
(* connection is changed only by that client's own payloads.  No callback  *)
(* of another connection, and no timer, adds its nick to or removes it     *)
(* from the typing set of its room.  A stale connection of the same nick   *)
(* does both.                                                              *)
(***************************************************************************)
C19_Step ==
    \A c \in Conns :
        ( /\ readyState[c] = "OPEN"
          /\ ListedIn(rooms, cRoom[c], c)
          /\ ~ \E p \in LifePayloads : Receives(c, p) )
        => /\ cRoom[c] \in DOMAIN typingUsers'
           /\ ( cNick[c] \in TypingNicks(typingUsers', cRoom[c]) )
                 <=> ( cNick[c] \in TypingNicks(typingUsers, cRoom[c]) )

C19_TypingOwnedByClient == [][C19_Step]_vars

(***************************************************************************)
(* C20.  As claimed: while the sweep timers keep firing, every client      *)
(* whose connection is not OPEN is eventually out of its room's client     *)
(* list, and every room with no OPEN client is eventually removed from the *)
(* store, whether or not the close event is delivered.  A room whose       *)
(* clients are all dead is not removed when a new client joins it before   *)
(* the sweep runs.                                                         *)
(***************************************************************************)
\* room r is in the store and none of its clients is OPEN
DeadRoom(r) == r \in DOMAIN rooms /\ OpenMembers(readyState, rooms, r) = << >>

StaleClientsGo ==
    \A c \in Conns :
        ( Listed(rooms, c) /\ readyState[c] # "OPEN" ) ~> ~Listed(rooms, c)

C20_DeadRoomRemoved ==
    /\ StaleClientsGo
    /\ \A r \in RoomIds : DeadRoom(r) ~> ( r \notin DOMAIN rooms )

(***************************************************************************)
(* C20, amended.  While the sweep timers keep firing, every client whose   *)
(* connection is not OPEN is eventually out of its room's client list, and *)
(* every room with no OPEN client is eventually either removed from the    *)
(* store or joined by an OPEN client, whether or not the close event is    *)
(* delivered.                                                              *)
(***************************************************************************)
C20_StalenessBounded ==
    /\ StaleClientsGo
    /\ \A r \in RoomIds : DeadRoom(r) ~> ~DeadRoom(r)

\* a sweep has removed a room whose only client had dropped, the close
\* event of that client still to come
C20_Witness ==
    /\ last.op = "sweep"
    /\ rooms = << >>
    /\ \E c \in Conns :
          /\ handlers[c] /\ readyState[c] = "CLOSING" /\ ~destroyed[c]
          /\ \A d \in Conns \ {c} : readyState[d] = "CONNECTING"

(***************************************************************************)
(* C21.  As claimed: whenever the leave notice "<nick> left the room" is   *)
(* broadcast to a room, no client with that nick and an OPEN connection is *)
(* in the room's client list.  The close event of a connection that was    *)
(* cleaned up at the join of a new holder of its nick announces the        *)
(* departure of the nick of that new holder.                               *)
(***************************************************************************)
\* the frame is the leave notice of nick n
IsLeaveNotice(e, n) == e.type = "system" /\ e.body.text = << n, "left the room" >>

C21_LeaveNoticeOnlyForGone ==
    \A i \in 1..Len(out) : \A n \in Nicks :
        IsLeaveNotice(out[i], n) => ~OpenHolder(readyState, rooms, cRoom[out[i].to], n)

(***************************************************************************)
(* C22.  In every reachable state no client list holds two records with    *)
(* the same nick, whatever the readyState of their connections, and no     *)
(* userList frame lists a nick twice.                                      *)
(***************************************************************************)
C22_OneRecordPerNick ==
    /\ \A r \in DOMAIN rooms : \A i, j \in 1..Len(rooms[r]) :
          rooms[r][i].nick = rooms[r][j].nick => i = j
    /\ \A i \in 1..Len(out) : out[i].type = "userList" => NoDuplicates(out[i].body)

\* a connection just joined under the nick of a connection that is not OPEN
\* and whose close event is still to come
C22_Witness ==
    /\ last.op = "connection"
    /\ ListedIn(rooms, last.roomId, last.c)
    /\ \E d \in Conns \ {last.c} :
          /\ handlers[d] /\ readyState[d] = "CLOSING"
          /\ cRoom[d] = last.roomId /\ cNick[d] = last.nick
    /\ \E i \in 1..Len(out) : out[i].type = "userList" /\ out[i].body = << last.nick >>

(***************************************************************************)
(* C23.  Every message that a payload of connection c stores in a history  *)
(* buffer or sends in a message frame carries the nick under which c       *)
(* joined and a timestamp the server read from its clock, also when the    *)
(* payload is a JSON object with "nick" and "timestamp" fields of its own. *)
(***************************************************************************)
\* the message carries the nick n and a server timestamp
ServerStamped(m, n) == m.nick = n /\ m.timestamp \in Times

C23_Step ==
    \A c \in Conns, p \in Payloads :
        Receives(c, p) =>
           /\ \A i \in 1..Len(out') :
                 out'[i].type = "message" => ServerStamped(out'[i].body, cNick[c])
           /\ nextId' # nextId =>
                 LET buffer == messageBuffers'[cRoom[c]]
                 IN  /\ ServerStamped(buffer[Len(buffer)], cNick[c])
                     /\ \A r \in DOMAIN messageBuffers' \ {cRoom[c]} :
                           messageBuffers'[r] = messageBuffers[r]
                     /\ \A i \in 1..(Len(buffer) - 1) :
                           \E j \in 1..Len(messageBuffers[cRoom[c]]) :
                              buffer[i] = messageBuffers[cRoom[c]][j]

C23_SenderFromJoin == [][C23_Step]_vars

\* a payload with "nick" and "timestamp" fields of its own was just stored
\* and sent under the nick of the connection
C23_Witness ==
    /\ last.op = "message"
    /\ last.p.kind = "msgobj" /\ last.p.flag
    /\ last.roomId \in DOMAIN messageBuffers
    /\ Len(messageBuffers[last.roomId]) = 1
    /\ messageBuffers[last.roomId][1].nick = last.nick
    /\ \E i \in 1..Len(out) : out[i].type = "message" /\ out[i].body.nick = last.nick

====
